---- MODULE Spec2Model ----
(***************************************************************************)
(* trivy_to_nist.py: Trivy scan documents are merged into one corpus       *)
(* (merge_jsons), normalised into findings (extract_findings) and written  *)
(* as a MITRE SAF HDF profile (export_mitre_saf_hdf) by main, which then   *)
(* offers an export menu.                                                  *)
(*                                                                         *)
(* Text (ids, titles, descriptions, versions, paths) is a sequence of      *)
(* one-character strings, so that concatenation and replacement are        *)
(* computed.  A JSON object is a function whose DOMAIN is the set of keys  *)
(* that are present.                                                       *)
(***************************************************************************)
EXTENDS Integers, Sequences, FiniteSets, TLC

VARIABLES
  pc,          \* position of the running invocation of main
  scan_files,  \* contents of the files glob finds under trivy_scans, in all_files order
  fs,          \* profile documents on disk: path -> content (template file and artifacts)
  dirs,        \* directories created by os.makedirs
  xccdf,       \* XCCDF files the external converter has written
  data,        \* main's merged corpus
  warnings,    \* number of "Warning: Could not load" lines printed so far by this run
  image_name,  \* main's image_name
  digest,      \* main's digest
  findings,    \* main's findings
  timestamp,   \* main's timestamp
  hdf_file,    \* main's hdf_file
  outcome,     \* how the invocation ended, or "running"
  printed,     \* the last message the invocation printed
  now,         \* the wall clock
  runs         \* invocations of main started so far

vars == <<pc, scan_files, fs, dirs, xccdf, data, warnings, image_name, digest,
          findings, timestamp, hdf_file, outcome, printed, now, runs>>

-----------------------------------------------------------------------------
(* Bounds of the model.                                                    *)

\* Longest list of scan files glob returns.
MaxFiles == 2
\* Longest Results sequence of one generated scan document.
MaxBlocks == 2
\* Largest value of the wall clock.
MaxClock == 1
\* Most invocations of main on the same directory.
MaxRuns == 2

-----------------------------------------------------------------------------
(* JSON objects and text.                                                  *)

\* {} : the object with no key.
EmptyObj == <<>>

\* dict.get(key, default)
Get(obj, key, default) == IF key \in DOMAIN obj THEN obj[key] ELSE default

\* An object literal one of whose keys may be absent.
Opt(key, value, present) == IF present THEN key :> value ELSE EmptyObj

\* str.replace(old, new) for one-character old and new
Replace(s, old, new) == [i \in 1..Len(s) |-> IF s[i] = old THEN new ELSE s[i]]

\* All sequences over S of length at most n.
SeqsUpTo(S, n) == UNION {[1..k -> S] : k \in 0..n}

-----------------------------------------------------------------------------
(* The control catalog and the severity table (module globals).            *)

NIST_MAPPING ==
  <<
    [id |-> <<"S", "C", "-", "2", "8">>,  \* SC-28
     trivy_keywords |->
       <<<<"c", "r", "y", "p", "t", "o">>,
         <<"s", "s", "l">>,
         <<"t", "l", "s">>,
         <<"c", "i", "p", "h", "e", "r">>,
         <<"i", "n", "s", "e", "c", "u", "r", "e">>>>,
     severity_threshold |-> "HIGH"],
    [id |-> <<"S", "I", "-", "2">>,  \* SI-2
     trivy_keywords |->
       <<>>,
     severity_threshold |-> "CRITICAL"],
    [id |-> <<"S", "I", "-", "7">>,  \* SI-7
     trivy_keywords |->
       <<<<"s", "i", "g", "n", "a", "t", "u", "r", "e">>,
         <<"h", "a", "s", "h">>,
         <<"v", "e", "r", "i", "f", "i", "c", "a", "t", "i", "o", "n">>,
         <<"u", "n", "s", "i", "g", "n", "e", "d">>>>,
     severity_threshold |-> "HIGH"],
    [id |-> <<"C", "M", "-", "6">>,  \* CM-6
     trivy_keywords |->
       <<<<"c", "o", "n", "f", "i", "g">>,
         <<"m", "i", "s", "c", "o", "n", "f", "i", "g", "u", "r", "a", "t", "i", "o", "n">>,
         <<"e", "x", "p", "o", "s", "u", "r", "e">>,
         <<"d", "e", "b", "u", "g">>>>,
     severity_threshold |-> "MEDIUM"],
    [id |-> <<"I", "A", "-", "5">>,  \* IA-5
     trivy_keywords |->
       <<<<"p", "a", "s", "s", "w", "o", "r", "d">>,
         <<"c", "r", "e", "d", "e", "n", "t", "i", "a", "l">>,
         <<"s", "e", "c", "r", "e", "t">>,
         <<"k", "e", "y">>>>,
     severity_threshold |-> "HIGH"],
    [id |-> <<"A", "C", "-", "6">>,  \* AC-6
     trivy_keywords |->
       <<<<"r", "o", "o", "t">>,
         <<"p", "r", "i", "v", "i", "l", "e", "g", "e", "d">>,
         <<"c", "a", "p", "a", "b", "i", "l", "i", "t", "y">>,
         <<"s", "u", "i", "d">>>>,
     severity_threshold |-> "HIGH"],
    [id |-> <<"S", "A", "-", "8">>,  \* SA-8
     trivy_keywords |->
       <<<<"i", "n", "s", "e", "c", "u", "r", "e">>,
         <<"d", "e", "p", "r", "e", "c", "a", "t", "e", "d">>,
         <<"v", "u", "l", "n", "e", "r", "a", "b", "l", "e">>>>,
     severity_threshold |-> "MEDIUM"],
    [id |-> <<"R", "A", "-", "5">>,  \* RA-5
     trivy_keywords |->
       <<>>,
     severity_threshold |-> "LOW"]
  >>

SEVERITY_ORDER ==
  [CRITICAL |-> 4, HIGH |-> 3, MEDIUM |-> 2, LOW |-> 1, UNKNOWN |-> 0]

-----------------------------------------------------------------------------
(* merge_jsons                                                             *)

\* What open + json.load make of one scan file: status is "ok" (doc is the
\* parsed object), "missing" (FileNotFoundError), "malformed"
\* (json.JSONDecodeError) or "unreadable" (PermissionError).
ScanFile(status, doc) == [status |-> status, doc |-> doc]

Loads(f) == f.status = "ok"

Caught_OnlyMissing(status) == status = "missing"

\* except (FileNotFoundError, json.JSONDecodeError): any other exception of
\* open or json.load (status "unreadable": PermissionError) is not caught.
Caught(status) == status \in {"missing", "malformed"}

MergeFile_Dedup(merged, f) ==
  IF ~Loads(f) THEN merged
  ELSE LET d == f.doc
           new == SelectSeq(Get(d, "Results", <<>>),
                            LAMBDA b : \A i \in 1..Len(merged["Results"]) :
                                          merged["Results"][i] # b)
           ext == [merged EXCEPT !["Results"] = @ \o new]
       IN  [k \in DOMAIN ext \cup DOMAIN d |->
              IF k # "Results" /\ k \in DOMAIN d THEN d[k] ELSE ext[k]]

MergeFile_FirstWins(merged, f) ==
  IF ~Loads(f) THEN merged
  ELSE LET d == f.doc
           ext == [merged EXCEPT !["Results"] = @ \o Get(d, "Results", <<>>)]
       IN  [k \in DOMAIN ext \cup DOMAIN d |->
              IF k \in DOMAIN ext THEN ext[k] ELSE d[k]]

\* One iteration of the loop over file_list: the file's Results are appended
\* and every other top-level key overwrites; a file that does not load leaves
\* merged as it is.
MergeFile(merged, f) ==
  IF ~Loads(f) THEN merged
  ELSE LET d == f.doc
           ext == [merged EXCEPT !["Results"] = @ \o Get(d, "Results", <<>>)]
       IN  [k \in DOMAIN ext \cup DOMAIN d |->
              IF k # "Results" /\ k \in DOMAIN d THEN d[k] ELSE ext[k]]

RECURSIVE MergeFrom(_, _)
MergeFrom(merged, file_list) ==
  IF file_list = <<>> THEN merged
  ELSE MergeFrom(MergeFile(merged, Head(file_list)), Tail(file_list))

merge_jsons(file_list) == MergeFrom([Results |-> <<>>], file_list)

\* merge_jsons dies of an exception its except clause does not name.
MergeAborts(file_list) ==
  \E i \in 1..Len(file_list) :
     ~Loads(file_list[i]) /\ ~Caught(file_list[i].status)

\* The "Warning: Could not load" lines merge_jsons prints.
MergeWarnings(file_list) ==
  Cardinality({i \in 1..Len(file_list) : ~Loads(file_list[i])})

-----------------------------------------------------------------------------
(* extract_findings                                                        *)

NA == <<"N", "/", "A">>

NoFixAvailable ==
  <<"N", "o", " ", "f", "i", "x", " ", "a", "v", "a", "i", "l", "a", "b", "l", "e">>

SecretPrefix == <<"S", "E", "C", "R", "E", "T", "-">>

VulnFinding(vuln) ==
  [type        |-> "vulnerability",
   id          |-> vuln["VulnerabilityID"],
   title       |-> Get(vuln, "Title", vuln["VulnerabilityID"]),
   severity    |-> vuln["Severity"],
   package     |-> Get(vuln, "PkgName", NA),
   installed   |-> Get(vuln, "InstalledVersion", NA),
   fixed       |-> Get(vuln, "FixedVersion", NoFixAvailable),
   description |-> Get(vuln, "Description", <<>>),
   references  |-> Get(vuln, "References", <<>>),
   published   |-> Get(vuln, "PublishedDate", <<>>),
   layer       |-> Get(Get(vuln, "Layer", EmptyObj), "DiffID", NA)]

MisconfigFinding_NoTitleDefault(m) ==
  [type        |-> "misconfiguration",
   id          |-> m["ID"],
   title       |-> Get(m, "Title", <<>>),
   severity    |-> m["Severity"],
   description |-> Get(m, "Message", <<>>),
   references  |-> Get(m, "References", <<>>)]

MisconfigFinding(m) ==
  [type        |-> "misconfiguration",
   id          |-> m["ID"],
   title       |-> Get(m, "Title", m["ID"]),
   severity    |-> m["Severity"],
   description |-> Get(m, "Message", <<>>),
   references  |-> Get(m, "References", <<>>)]

SecretFinding(s) ==
  [type        |-> "secret",
   id          |-> SecretPrefix \o s["RuleID"],
   title       |-> Get(s, "Title", SecretPrefix \o s["RuleID"]),
   severity    |-> s["Severity"],
   description |-> Get(s, "Match", <<>>)]

\* The findings of one Result block: vulnerabilities, then misconfigurations,
\* then secrets.
BlockFindings(result) ==
  LET vs == Get(result, "Vulnerabilities", <<>>)
      ms == Get(result, "Misconfigurations", <<>>)
      ss == Get(result, "Secrets", <<>>)
  IN  [i \in 1..Len(vs) |-> VulnFinding(vs[i])]
      \o [i \in 1..Len(ms) |-> MisconfigFinding(ms[i])]
      \o [i \in 1..Len(ss) |-> SecretFinding(ss[i])]

RECURSIVE ResultsFindings(_)
ResultsFindings(results) ==
  IF results = <<>> THEN <<>>
  ELSE BlockFindings(Head(results)) \o ResultsFindings(Tail(results))

extract_findings(d) == ResultsFindings(Get(d, "Results", <<>>))

\* A record without a key that extract_findings subscripts raises KeyError.
BlockRaises(result) ==
  \/ \E i \in 1..Len(Get(result, "Vulnerabilities", <<>>)) :
        ~({"VulnerabilityID", "Severity"} \subseteq DOMAIN result["Vulnerabilities"][i])
  \/ \E i \in 1..Len(Get(result, "Misconfigurations", <<>>)) :
        ~({"ID", "Severity"} \subseteq DOMAIN result["Misconfigurations"][i])
  \/ \E i \in 1..Len(Get(result, "Secrets", <<>>)) :
        ~({"RuleID", "Severity"} \subseteq DOMAIN result["Secrets"][i])

ExtractRaises(d) ==
  \E i \in 1..Len(Get(d, "Results", <<>>)) : BlockRaises(d["Results"][i])

-----------------------------------------------------------------------------
(* export_mitre_saf_hdf                                                    *)

\* os.path.join(os.path.dirname(__file__), "container_hardening.hdf.json")
TemplatePath ==
  <<"c", "o", "n", "t", "a", "i", "n", "e", "r", "_", "h", "a", "r", "d", "e",
    "n", "i", "n", "g", ".", "h", "d", "f", ".", "j", "s", "o", "n">>

\* A JSON file on disk: json says whether json.load parses it, doc is what it
\* parses to.
JsonFile(doc) == [json |-> TRUE, doc |-> doc]

NotJson == [json |-> FALSE, doc |-> EmptyObj]

\* The profile used when the template file does not exist.
FallbackHdf ==
  [profiles |-> << [name     |-> "Trivy Container Scan",
                    title    |-> "Automated scan of container image",
                    controls |-> <<>>] >>]

Digits == <<"0", "1", "2", "3", "4", "5", "6", "7", "8", "9">>

\* datetime.now().strftime("%Y%m%d_%H%M%S") of clock value t
Strftime(t) == <<"T", Digits[t + 1]>>

\* datetime.utcnow().isoformat() + "Z" of clock value t
Isoformat(t) == <<Digits[t + 1], "Z">>

\* The severity -> impact lookup, in tenths (0.9, 0.7, 0.5, 0.3, else 0.1).
Impact(severity) ==
  Get([CRITICAL |-> 9, HIGH |-> 7, MEDIUM |-> 5, LOW |-> 3], severity, 1)

\* f"{f['package']} {f['installed']} → {f['fixed']}"
CodeDesc(f) == f["package"] \o <<" ">> \o f["installed"] \o <<" ", "→", " ">> \o f["fixed"]

\* The control built from one finding at clock value t.
ControlOf(f, t) ==
  [id      |-> f["id"],
   title   |-> f["title"],
   desc    |-> f["description"],
   impact  |-> Impact(f["severity"]),
   tags    |-> [severity |-> f["severity"]],
   results |-> << [status     |-> "failed",
                   code_desc  |-> CodeDesc(f),
                   start_time |-> Isoformat(t)] >>]

\* Building the control of a finding without one of the keys the f-string
\* subscripts raises KeyError.
ControlRaises(f) == ~({"package", "installed", "fixed"} \subseteq DOMAIN f)

BuildControls(fnds, t) == [i \in 1..Len(fnds) |-> ControlOf(fnds[i], t)]

AppendControls_Replace(hdf, controls) ==
  [hdf EXCEPT !["profiles"][1] = ("controls" :> controls) @@ @]

\* "Append to existing controls or set"
AppendControls(hdf, controls) ==
  IF "controls" \notin DOMAIN hdf["profiles"][1]
  THEN [hdf EXCEPT !["profiles"][1] = ("controls" :> controls) @@ @]
  ELSE [hdf EXCEPT !["profiles"][1]["controls"] = @ \o controls]

HdfDirSuffix == <<"/", "h", "d", "f">>

OutputFilename_TemplatePath(directory, image, ts) == TemplatePath

\* f"{directory}/hdf/trivy-hdf-{image_name.replace('/', '_').replace(':', '_')}_{timestamp}.json"
OutputFilename(directory, image, ts) ==
  directory \o HdfDirSuffix \o <<"/", "t", "r", "i", "v", "y", "-", "h", "d", "f", "-">>
    \o Replace(Replace(image, "/", "_"), ":", "_") \o <<"_">> \o ts
    \o <<".", "j", "s", "o", "n">>

\* The template as export_mitre_saf_hdf loads it: the fallback when the file
\* does not exist.
LoadTemplate(files) ==
  IF TemplatePath \in DOMAIN files THEN files[TemplatePath].doc ELSE FallbackHdf

\* The exception export_mitre_saf_hdf dies of, "none" when it completes:
\* an unparsable template, a template without a first profile, a finding
\* without package / installed / fixed.
ExportError(files, fnds) ==
  IF TemplatePath \in DOMAIN files /\ ~files[TemplatePath].json
    THEN "JSONDecodeError"
  ELSE IF \E i \in 1..Len(fnds) : ControlRaises(fnds[i])
    THEN "KeyError"
  ELSE IF "profiles" \notin DOMAIN LoadTemplate(files)
    THEN "KeyError"
  ELSE IF LoadTemplate(files)["profiles"] = <<>>
    THEN "IndexError"
  ELSE "none"

\* The document export_mitre_saf_hdf dumps.
ExportHdf(files, fnds, t) == AppendControls(LoadTemplate(files), BuildControls(fnds, t))

-----------------------------------------------------------------------------
(* Sample scan records, Result blocks and scan documents.                  *)

\* CVE-1 "Weak Password", CRITICAL, every optional field present
Vuln1 ==
  [VulnerabilityID  |-> <<"C", "V", "E", "-", "1">>,
   Title            |-> <<"W", "e", "a", "k", " ", "P", "a", "s", "s", "w", "o", "r", "d">>,
   Severity         |-> "CRITICAL",
   PkgName          |-> <<"s", "s", "l">>,
   InstalledVersion |-> <<"1", ".", "0">>,
   FixedVersion     |-> <<"1", ".", "1">>,
   Description      |-> <<"b", "a", "d", " ", "k", "e", "y">>,
   References       |-> << <<"u", "r", "l">> >>,
   PublishedDate    |-> <<"2", "0", "2", "5">>,
   Layer            |-> [DiffID |-> <<"s", "h", "a">>]]

\* CVE-2, LOW, only the required fields
Vuln2 == [VulnerabilityID |-> <<"C", "V", "E", "-", "2">>, Severity |-> "LOW"]

\* CVE-3 "debug", a severity outside the table, a Layer without DiffID
Vuln3 ==
  [VulnerabilityID |-> <<"C", "V", "E", "-", "3">>,
   Title           |-> <<"d", "e", "b", "u", "g">>,
   Severity        |-> "BOGUS",
   PkgName         |-> <<"c", "u", "r", "l">>,
   Layer           |-> EmptyObj]

\* a vulnerability record without VulnerabilityID
VulnNoId == [Title |-> <<"x">>, Severity |-> "HIGH"]

\* DS002 "root user", HIGH
Misconfig1 ==
  [ID       |-> <<"D", "S", "0", "0", "2">>,
   Title    |-> <<"r", "o", "o", "t", " ", "u", "s", "e", "r">>,
   Severity |-> "HIGH",
   Message  |-> <<"r", "u", "n", "s", " ", "a", "s", " ", "R", "O", "O", "T">>]

\* DS026, LOW, no Title and no Message
Misconfig2 == [ID |-> <<"D", "S", "0", "2", "6">>, Severity |-> "LOW"]

\* rule AWS-001, CRITICAL, no Title
Secret1 ==
  [RuleID   |-> <<"A", "W", "S", "-", "0", "0", "1">>,
   Severity |-> "CRITICAL",
   Match    |-> <<"A", "K", "I", "A">>]

\* rule gh "Token", MEDIUM, no Match
Secret2 ==
  [RuleID   |-> <<"g", "h">>,
   Title    |-> <<"T", "o", "k", "e", "n">>,
   Severity |-> "MEDIUM"]

BlkEmpty == [Target |-> <<"t">>]

BlkV1 == [Target |-> <<"t">>, Vulnerabilities |-> <<Vuln1>>]

BlkV23 == [Vulnerabilities |-> <<Vuln2, Vuln3>>]

BlkM == [Misconfigurations |-> <<Misconfig1, Misconfig2>>]

BlkS == [Secrets |-> <<Secret1, Secret2>>]

BlkMix ==
  [Vulnerabilities   |-> <<Vuln1>>,
   Misconfigurations |-> <<Misconfig2>>,
   Secrets           |-> <<Secret1>>]

BlkBad == [Vulnerabilities |-> <<Vuln2, VulnNoId>>]

Blocks == {BlkEmpty, BlkV1, BlkV23, BlkM, BlkS, BlkMix, BlkBad}

ImageA == <<"r", "/", "a", ":", "1">>

ImageB == <<"b">>

FileMissing == ScanFile("missing", EmptyObj)

FileMalformed == ScanFile("malformed", EmptyObj)

FileUnreadable == ScanFile("unreadable", EmptyObj)

\* The scan files main is run on.
MainFiles ==
  { FileMissing,
    FileMalformed,
    FileUnreadable,
    ScanFile("ok", [Results      |-> <<BlkV1>>,
                    ArtifactName |-> ImageA,
                    Metadata     |-> [RepoDigests |-> << <<"s", "h", "a">> >>]]),
    ScanFile("ok", [Results |-> <<BlkV23>>, ArtifactName |-> ImageB]),
    ScanFile("ok", [Results |-> <<BlkMix>>]),
    ScanFile("ok", [ArtifactName |-> ImageB, Metadata |-> [RepoDigests |-> <<>>]]),
    ScanFile("ok", [Results |-> <<BlkBad>>]) }

\* The scan files merge_jsons is called on: every combination of a Results
\* choice (absent, empty, one block, the same block twice, two blocks), an
\* ArtifactName choice and a SchemaVersion choice, and the three kinds of file
\* that do not load.
MergeResultsChoices == {<<>>, <<BlkV1>>, <<BlkV1, BlkV1>>, <<BlkM, BlkV1>>}

MergeDocs ==
  { Opt("Results", rs, has_rs) @@ Opt("ArtifactName", an, has_an)
      @@ Opt("SchemaVersion", <<"2">>, has_sv) :
      rs \in MergeResultsChoices, has_rs \in BOOLEAN,
      an \in {ImageA, ImageB}, has_an \in BOOLEAN, has_sv \in BOOLEAN }

MergeFiles ==
  {FileMissing, FileMalformed, FileUnreadable} \cup {ScanFile("ok", d) : d \in MergeDocs}

\* Controls a template file may already hold.
OldControl1 ==
  [id |-> <<"V", "-", "1">>, title |-> <<"o", "l", "d">>, desc |-> <<>>,
   impact |-> 5, tags |-> [severity |-> "MEDIUM"], results |-> <<>>]

OldControl2 ==
  [id |-> <<"V", "-", "2">>, title |-> <<"o", "l", "d">>, desc |-> <<>>,
   impact |-> 7, tags |-> [severity |-> "HIGH"], results |-> <<>>]

\* The template file: unparsable, without profiles, with a first profile that
\* has no controls key, an empty controls sequence, or two controls.
Templates ==
  { NotJson,
    JsonFile(EmptyObj),
    JsonFile([profiles |-> << [name |-> "Container Hardening", title |-> "Baseline"] >>]),
    JsonFile([profiles |-> << [name |-> "Container Hardening", title |-> "Baseline",
                               controls |-> <<>>] >>]),
    JsonFile([profiles |-> << [name |-> "Container Hardening", title |-> "Baseline",
                               controls |-> <<OldControl1, OldControl2>>] >>]) }

-----------------------------------------------------------------------------
(* main                                                                    *)

\* args.directory
Directory == <<"d">>

\* f"{base_directory}/MITRE"
MitreDir == Directory \o <<"/", "M", "I", "T", "R", "E">>

UnknownImage == <<"u", "n", "k", "n", "o", "w", "n", "-", "i", "m", "a", "g", "e">>

NoDigestFound ==
  <<"N", "o", " ", "d", "i", "g", "e", "s", "t", " ", "f", "o", "u", "n", "d">>

\* data.get("Metadata", {}).get("RepoDigests", [None])[0] raises IndexError
\* on an empty RepoDigests.
DigestRaises(d) ==
  /\ "Metadata" \in DOMAIN d
  /\ "RepoDigests" \in DOMAIN d["Metadata"]
  /\ d["Metadata"]["RepoDigests"] = <<>>

\* data.get("Metadata", {}).get("RepoDigests", [None])[0] or "No digest found"
Digest(d) ==
  LET repo == Get(Get(d, "Metadata", EmptyObj), "RepoDigests", << <<>> >>)
  IN  IF repo[1] = <<>> THEN NoDigestFound ELSE repo[1]

\* f"{directory}/openscap/{image_name.replace('/', '_').replace(':', '_')}_{timestamp}.xccdf.xml"
XccdfFilename(directory, image, ts) ==
  directory \o <<"/", "o", "p", "e", "n", "s", "c", "a", "p", "/">>
    \o Replace(Replace(image, "/", "_"), ":", "_") \o <<"_">> \o ts
    \o <<".", "x", "c", "c", "d", "f", ".", "x", "m", "l">>

NoFilesFound_Never(all_files) == FALSE

\* not all_files
NoFilesFound(all_files) == all_files = <<>>

\* The state of an invocation of main before its first statement.
Fresh ==
  /\ pc = "start"
  /\ data = EmptyObj
  /\ warnings = 0
  /\ image_name = <<>>
  /\ digest = <<>>
  /\ findings = <<>>
  /\ timestamp = <<>>
  /\ hdf_file = <<>>
  /\ outcome = "running"
  /\ printed = ""

Init ==
  /\ Fresh
  /\ scan_files \in SeqsUpTo(MainFiles, MaxFiles)
  /\ fs \in {EmptyObj} \cup {TemplatePath :> t : t \in Templates}
  /\ dirs = {}
  /\ xccdf = {}
  /\ now = 0
  /\ runs = 1

\* main() dies of an uncaught exception, or exits.
Ends(how) ==
  /\ pc' = "done"
  /\ outcome' = how

\* glob the four categories; exit(1) when nothing was found.
Discover ==
  /\ pc = "start"
  /\ IF NoFilesFound(scan_files)
     THEN /\ Ends("exit1")
          /\ printed' = "Error: No Trivy scan JSON files found in trivy_scans directory"
     ELSE /\ pc' = "merge"
          /\ UNCHANGED <<outcome, printed>>
  /\ UNCHANGED <<scan_files, fs, dirs, xccdf, data, warnings, image_name, digest,
                 findings, timestamp, hdf_file, now, runs>>

\* data = merge_jsons(all_files); image_name = data.get("ArtifactName", ...)
Merge ==
  /\ pc = "merge"
  /\ IF MergeAborts(scan_files)
     THEN /\ Ends("PermissionError")
          /\ UNCHANGED <<data, warnings, image_name>>
     ELSE /\ data' = merge_jsons(scan_files)
          /\ warnings' = MergeWarnings(scan_files)
          /\ image_name' = Get(data', "ArtifactName", UnknownImage)
          /\ pc' = "extract"
          /\ UNCHANGED outcome
  /\ UNCHANGED <<scan_files, fs, dirs, xccdf, digest, findings, timestamp,
                 hdf_file, printed, now, runs>>

\* findings = extract_findings(data); the digest, the summary lines, the
\* timestamp (container_name is computed for the summary line only).
Extract ==
  /\ pc = "extract"
  /\ IF ExtractRaises(data)
     THEN /\ Ends("KeyError")
          /\ UNCHANGED <<findings, digest, timestamp, printed>>
     ELSE /\ findings' = extract_findings(data)
          /\ IF DigestRaises(data)
             THEN /\ Ends("IndexError")
                  /\ UNCHANGED <<digest, timestamp, printed>>
             ELSE /\ digest' = Digest(data)
                  /\ printed' = "Image digest"
                  /\ timestamp' = Strftime(now)
                  /\ pc' = "makedirs"
                  /\ UNCHANGED outcome
  /\ UNCHANGED <<scan_files, fs, dirs, xccdf, data, warnings, image_name,
                 hdf_file, now, runs>>

\* os.makedirs of the three subfolders, exist_ok=True
MakeDirs ==
  /\ pc = "makedirs"
  /\ dirs' = dirs \cup { MitreDir \o <<"/", "o", "p", "e", "n", "s", "c", "a", "p">>,
                         MitreDir \o HdfDirSuffix,
                         MitreDir \o <<"/", "c", "k", "l">> }
  /\ pc' = "export"
  /\ UNCHANGED <<scan_files, fs, xccdf, data, warnings, image_name, digest,
                 findings, timestamp, hdf_file, outcome, printed, now, runs>>

\* hdf_file = export_mitre_saf_hdf(image_name, findings, directory, timestamp)
Export ==
  /\ pc = "export"
  /\ IF ExportError(fs, findings) # "none"
     THEN /\ Ends(ExportError(fs, findings))
          /\ UNCHANGED <<fs, hdf_file, printed>>
     ELSE LET filename == OutputFilename(MitreDir, image_name, timestamp)
          IN  /\ fs' = (filename :> JsonFile(ExportHdf(fs, findings, now))) @@ fs
              /\ hdf_file' = filename
              /\ printed' = "Subfolders created: openscap, hdf, ckl"
              /\ pc' = "menu"
              /\ UNCHANGED outcome
  /\ UNCHANGED <<scan_files, dirs, xccdf, data, warnings, image_name, digest,
                 findings, timestamp, now, runs>>

\* export_openscap_bundle: the converter runs in docker; result is what
\* subprocess.run does ("ok", a nonzero exit status caught as
\* CalledProcessError, or docker missing: an uncaught FileNotFoundError).
OpenscapBundle(result) ==
  CASE result = "ok" ->
         /\ xccdf' = xccdf \cup {XccdfFilename(MitreDir, image_name, timestamp)}
         /\ UNCHANGED <<pc, outcome>>
    [] result = "CalledProcessError" ->
         UNCHANGED <<pc, outcome, xccdf>>
    [] OTHER ->
         /\ Ends("FileNotFoundError")
         /\ UNCHANGED xccdf

MenuFrame ==
  UNCHANGED <<scan_files, fs, dirs, data, warnings, image_name, digest, findings,
              timestamp, hdf_file, now, runs>>

\* choice "1": OpenSCAP XCCDF
Choice1 ==
  /\ pc = "menu"
  /\ \E result \in {"ok", "CalledProcessError", "FileNotFoundError"} :
        /\ OpenscapBundle(result)
        /\ printed' = IF result = "FileNotFoundError"
                      THEN "Generating OpenSCAP XCCDF..."
                      ELSE "XCCDF generation complete."
  /\ MenuFrame

\* choice "2": the HDF file was written already; its name is printed again
Choice2 ==
  /\ pc = "menu"
  /\ printed' = "MITRE SAF HDF (eMASS-ready) saved"
  /\ UNCHANGED <<pc, outcome, xccdf>>
  /\ MenuFrame

\* choice "3": CKL generation is not available
Choice3 ==
  /\ pc = "menu"
  /\ printed' = "Use the main hardening script for CKL generation."
  /\ UNCHANGED <<pc, outcome, xccdf>>
  /\ MenuFrame

\* choice "4": all of the above
Choice4 ==
  /\ pc = "menu"
  /\ \E result \in {"ok", "CalledProcessError", "FileNotFoundError"} :
        /\ OpenscapBundle(result)
        /\ printed' = IF result = "FileNotFoundError"
                      THEN "Generating OpenSCAP XCCDF..."
                      ELSE "Use the main hardening script for CKL generation."
  /\ MenuFrame

\* choice "5": leave the loop; main returns
Choice5 ==
  /\ pc = "menu"
  /\ printed' = "Goodbye!"
  /\ Ends("exit0")
  /\ UNCHANGED xccdf
  /\ MenuFrame

\* any other input
ChoiceInvalid ==
  /\ pc = "menu"
  /\ printed' = "Invalid choice. Try again."
  /\ UNCHANGED <<pc, outcome, xccdf>>
  /\ MenuFrame

\* Time passes between the timestamp main takes and the export, and between
\* invocations.
Tick ==
  /\ \/ pc = "export"
     \/ pc = "done" /\ runs < MaxRuns
  /\ now < MaxClock
  /\ now' = now + 1
  /\ UNCHANGED <<pc, scan_files, fs, dirs, xccdf, data, warnings, image_name,
                 digest, findings, timestamp, hdf_file, outcome, printed, runs>>

\* The script is run again on the same directory: the files on disk stay,
\* the process starts afresh.
Rerun ==
  /\ pc = "done"
  /\ runs < MaxRuns
  /\ runs' = runs + 1
  /\ pc' = "start"
  /\ data' = EmptyObj
  /\ warnings' = 0
  /\ image_name' = <<>>
  /\ digest' = <<>>
  /\ findings' = <<>>
  /\ timestamp' = <<>>
  /\ hdf_file' = <<>>
  /\ outcome' = "running"
  /\ printed' = ""
  /\ UNCHANGED <<scan_files, fs, dirs, xccdf, now>>

Next ==
  \/ Discover
  \/ Merge
  \/ Extract
  \/ MakeDirs
  \/ Export
  \/ Choice1
  \/ Choice2
  \/ Choice3
  \/ Choice4
  \/ Choice5
  \/ ChoiceInvalid
  \/ Tick
  \/ Rerun

Spec == Init /\ [][Next]_vars

\* merge_jsons alone, called on every list of up to MaxFiles scan files.
InitMerge ==
  /\ pc = "merge"
  /\ scan_files \in SeqsUpTo(MergeFiles, MaxFiles)
  /\ fs = EmptyObj
  /\ dirs = {}
  /\ xccdf = {}
  /\ data = EmptyObj
  /\ warnings = 0
  /\ image_name = <<>>
  /\ digest = <<>>
  /\ findings = <<>>
  /\ timestamp = <<>>
  /\ hdf_file = <<>>
  /\ outcome = "running"
  /\ printed = ""
  /\ now = 0
  /\ runs = 1

SpecMerge == InitMerge /\ [][Merge]_vars

\* extract_findings alone, called on every corpus of up to MaxBlocks sample
\* blocks.
InitExtract ==
  /\ pc = "extract"
  /\ scan_files = <<>>
  /\ fs = EmptyObj
  /\ dirs = {}
  /\ xccdf = {}
  /\ data \in {[Results |-> rs] : rs \in SeqsUpTo(Blocks, MaxBlocks)}
                \cup {[ArtifactName |-> ImageB]}
  /\ warnings = 0
  /\ image_name = Get(data, "ArtifactName", UnknownImage)
  /\ digest = <<>>
  /\ findings = <<>>
  /\ timestamp = <<>>
  /\ hdf_file = <<>>
  /\ outcome = "running"
  /\ printed = ""
  /\ now = 0
  /\ runs = 1

SpecExtract == InitExtract /\ [][Extract]_vars

-----------------------------------------------------------------------------
(* What the claims speak of.                                               *)

\* Lower-casing of the letters the model uses.
LowerTable ==
    ("A" :> "a") @@ ("B" :> "b") @@ ("C" :> "c") @@ ("D" :> "d") @@ ("E" :> "e")
    @@ ("F" :> "f") @@ ("G" :> "g") @@ ("H" :> "h") @@ ("I" :> "i") @@ ("J" :>
    "j") @@ ("K" :> "k") @@ ("L" :> "l") @@ ("M" :> "m") @@ ("N" :> "n") @@ ("O"
    :> "o") @@ ("P" :> "p") @@ ("Q" :> "q") @@ ("R" :> "r") @@ ("S" :> "s") @@
    ("T" :> "t") @@ ("U" :> "u") @@ ("V" :> "v") @@ ("W" :> "w") @@ ("X" :> "x")
    @@ ("Y" :> "y") @@ ("Z" :> "z")

LowerChar(c) == IF c \in DOMAIN LowerTable THEN LowerTable[c] ELSE c

Lower(s) == [i \in 1..Len(s) |-> LowerChar(s[i])]

\* needle occurs in haystack
IsSubstring(needle, haystack) ==
  \E i \in 0..(Len(haystack) - Len(needle)) :
     \A j \in 1..Len(needle) : haystack[i + j] = needle[j]

\* Rank of a severity string in SEVERITY_ORDER, 0 when it is not in the table.
Rank(severity) == Get(SEVERITY_ORDER, severity, 0)

\* The keyword test of a catalog control on a finding.
KeywordHit(f, c) ==
  \/ c.trivy_keywords = <<>>
  \/ \E k \in 1..Len(c.trivy_keywords) :
        \/ IsSubstring(Lower(c.trivy_keywords[k]), Lower(f["title"]))
        \/ IsSubstring(Lower(c.trivy_keywords[k]), Lower(f["description"]))

\* The finding counts as evidence for the catalog control.
Matches(f, c) ==
  /\ Rank(f["severity"]) >= Rank(c.severity_threshold)
  /\ KeywordHit(f, c)

\* The code description a finding is to be rendered with.
ExpectedCodeDesc(f) ==
  IF f["type"] = "vulnerability"
  THEN f["package"] \o <<" ">> \o f["installed"] \o <<" ", "→", " ">> \o f["fixed"]
  ELSE f["description"]

\* This invocation's export_mitre_saf_hdf has returned.
Exported == pc \in {"menu", "done"} /\ hdf_file # <<>>

\* This invocation has called export_mitre_saf_hdf (it returned or raised).
ExportCalled == pc \in {"menu", "done"} /\ timestamp # <<>>

\* The controls of the first profile of a profile document.
ControlsOf(hdf) == Get(hdf["profiles"][1], "controls", <<>>)

\* The controls the template file holds (none when there is no such file).
ExistingControls(files) == ControlsOf(LoadTemplate(files))

\* The controls this invocation added to its artifact.
NewControls ==
  SubSeq(ControlsOf(fs[hdf_file].doc), Len(ExistingControls(fs)) + 1,
         Len(ControlsOf(fs[hdf_file].doc)))

\* Finding i is recorded in the artifact as evidence for catalog control c.
Recorded(i, c) ==
  \E k \in 1..Len(NewControls) :
     /\ NewControls[k].id = c.id
     /\ \E r \in 1..Len(NewControls[k].results) :
           NewControls[k].results[r].code_desc = ExpectedCodeDesc(findings[i])

\* The catalog controls with at least one matching finding, in catalog order.
ControlsWithEvidence ==
  SelectSeq(NIST_MAPPING, LAMBDA c : \E i \in 1..Len(findings) : Matches(findings[i], c))

\* The findings matching catalog control c, in normalisation order.
MatchedFindings(c) == SelectSeq(findings, LAMBDA f : Matches(f, c))

\* C1: once the export has returned, every finding is recorded as evidence
\* for a catalog control exactly when its severity rank reaches the control's
\* threshold rank and the control has no keywords or one of them occurs,
\* case-insensitively, in the finding's title or description.
C1_EvidenceIffSeverityAndKeyword ==
  Exported =>
    \A i \in 1..Len(findings) : \A n \in 1..Len(NIST_MAPPING) :
       Recorded(i, NIST_MAPPING[n]) <=> Matches(findings[i], NIST_MAPPING[n])

\* C2: the controls a run adds to the artifact are the catalog controls with
\* at least one matching finding, one entry each, in catalog order, each
\* holding its matched findings in normalisation order.
C2_ControlsAreCatalogControlsWithEvidence ==
  Exported =>
    /\ Len(NewControls) = Len(ControlsWithEvidence)
    /\ \A k \in 1..Len(NewControls) :
          LET c == ControlsWithEvidence[k]
              m == MatchedFindings(c)
          IN  /\ NewControls[k].id = c.id
              /\ Len(NewControls[k].results) = Len(m)
              /\ \A r \in 1..Len(m) :
                    NewControls[k].results[r].code_desc = ExpectedCodeDesc(m[r])

\* The template file is absent or a profile document with a first profile.
TemplateUsable ==
  TemplatePath \in DOMAIN fs =>
    /\ fs[TemplatePath].json
    /\ "profiles" \in DOMAIN fs[TemplatePath].doc
    /\ fs[TemplatePath].doc["profiles"] # <<>>

\* C3: called on findings of any of the three types (with a usable template),
\* the export returns, and the artifact holds for each finding a result record
\* with status "failed" and the code description of the finding's type.
C3_EveryFindingIsRendered ==
  (ExportCalled /\ TemplateUsable) =>
    /\ Exported
    /\ Len(NewControls) = Len(findings)
    /\ \A i \in 1..Len(findings) :
          /\ Len(NewControls[i].results) = 1
          /\ NewControls[i].results[1].status = "failed"
          /\ NewControls[i].results[1].code_desc = ExpectedCodeDesc(findings[i])

\* merge_jsons has returned (SpecMerge stops there).
Merged == pc = "extract"

\* The scan files that load, in load order.
LoadedFiles == SelectSeq(scan_files, Loads)

\* The Results sequences of the documents, one after the other.
RECURSIVE ConcatResults(_)
ConcatResults(files) ==
  IF files = <<>> THEN <<>>
  ELSE Get(Head(files).doc, "Results", <<>>) \o ConcatResults(Tail(files))

\* The sum of the lengths of the documents' Results sequences.
RECURSIVE SumResultsLen(_)
SumResultsLen(files) ==
  IF files = <<>> THEN 0
  ELSE Len(Get(Head(files).doc, "Results", <<>>)) + SumResultsLen(Tail(files))

\* C4: when every file of the list loads, the corpus's Results is the
\* concatenation, in load order, of the documents' Results, and its length is
\* the sum of their lengths.
C4_ResultsAreConcatenated ==
  (Merged /\ \A i \in 1..Len(scan_files) : Loads(scan_files[i])) =>
    /\ data["Results"] = ConcatResults(scan_files)
    /\ Len(data["Results"]) = SumResultsLen(scan_files)

\* C4's case: two documents that both load, the second repeating a block of
\* the first.
C4_Witness ==
  /\ Merged
  /\ Len(scan_files) = 2
  /\ Loads(scan_files[1]) /\ Loads(scan_files[2])
  /\ Get(scan_files[1].doc, "Results", <<>>) = <<BlkM, BlkV1>>
  /\ Get(scan_files[2].doc, "Results", <<>>) = <<BlkV1, BlkV1>>
  /\ Len(data["Results"]) = 4

\* The files that load and hold top-level key k.
FilesWithKey(k) ==
  {i \in 1..Len(scan_files) : Loads(scan_files[i]) /\ k \in DOMAIN scan_files[i].doc}

\* The largest element of a non-empty set of numbers.
Last(S) == CHOOSE i \in S : \A j \in S : j <= i

\* C5: every top-level key other than Results that some loaded document holds
\* is in the corpus with the value of the last document, in load order, that
\* holds it, and the corpus has no other key.
C5_LastDocumentWins ==
  Merged =>
    /\ DOMAIN data \ {"Results"} =
         UNION {DOMAIN LoadedFiles[i].doc : i \in 1..Len(LoadedFiles)} \ {"Results"}
    /\ \A k \in DOMAIN data \ {"Results"} :
          data[k] = scan_files[Last(FilesWithKey(k))].doc[k]

\* C5's case: two documents with different values under ArtifactName, and a
\* key that only the first supplies.
C5_Witness ==
  /\ Merged
  /\ Len(scan_files) = 2
  /\ FilesWithKey("ArtifactName") = {1, 2}
  /\ scan_files[1].doc["ArtifactName"] # scan_files[2].doc["ArtifactName"]
  /\ FilesWithKey("SchemaVersion") = {1}
  /\ data["ArtifactName"] = scan_files[2].doc["ArtifactName"]
  /\ "SchemaVersion" \in DOMAIN data

C7_ExistingControlsAreKept ==
  (Exported /\ "controls" \in DOMAIN LoadTemplate(fs)["profiles"][1]) =>
    LET old == LoadTemplate(fs)["profiles"][1]
        art == fs[hdf_file].doc["profiles"][1]
    IN  /\ art["name"] = old["name"]
        /\ art["title"] = old["title"]
        /\ Len(art["controls"]) = Len(old["controls"]) + Len(findings)
        /\ SubSeq(art["controls"], 1, Len(old["controls"])) = old["controls"]
        /\ \A i \in 1..Len(findings) :
              art["controls"][Len(old["controls"]) + i]["id"] = findings[i]["id"]

\* C7's case: a template file with two controls and a run with findings.
C7_Witness ==
  /\ Exported
  /\ TemplatePath \in DOMAIN fs
  /\ ExistingControls(fs) = <<OldControl1, OldControl2>>
  /\ Len(findings) >= 2
  /\ Len(ControlsOf(fs[hdf_file].doc)) = 2 + Len(findings)

\* A control without its capture timestamp.
Untimed(control) ==
  [control EXCEPT !["results"] =
     [r \in 1..Len(control["results"]) |->
        [k \in DOMAIN control["results"][r] \ {"start_time"} |-> control["results"][r][k]]]]

UntimedAll(controls) == [i \in 1..Len(controls) |-> Untimed(controls[i])]

\* s ends with t
EndsWith(s, t) ==
  /\ Len(t) <= Len(s)
  /\ SubSeq(s, Len(s) - Len(t) + 1, Len(s)) = t

\* C8 as stated: after the second run on the same inputs against the same
\* existing profile file, the newly assembled controls are present twice in a
\* control sequence on disk (the profile file's, or the artifact's).
C8_SecondRunDuplicates ==
  (runs = 2 /\ Exported /\ findings # <<>> /\ TemplatePath \in DOMAIN fs) =>
    LET new == UntimedAll(BuildControls(findings, now))
    IN  \/ EndsWith(UntimedAll(ExistingControls(fs)), new \o new)
        \/ EndsWith(UntimedAll(ControlsOf(fs[hdf_file].doc)), new \o new)

\* C8 amended: no step of any run changes the existing profile file, and the
\* step in which an export returns writes to the artifact the profile file's
\* controls followed by the newly assembled controls, once.
C8_EachRunAppendsOnce ==
  [][ /\ (TemplatePath \in DOMAIN fs') = (TemplatePath \in DOMAIN fs)
      /\ TemplatePath \in DOMAIN fs => fs'[TemplatePath] = fs[TemplatePath]
      /\ (pc = "export" /\ pc' = "menu") =>
            ControlsOf(fs'[hdf_file'].doc) =
              ExistingControls(fs) \o BuildControls(findings, now)
    ]_vars

\* C8's case: the second run on the same inputs has exported, with findings,
\* against a profile file that holds controls.
C8_Witness ==
  /\ runs = 2
  /\ Exported
  /\ findings # <<>>
  /\ TemplatePath \in DOMAIN fs
  /\ ExistingControls(fs) # <<>>
  /\ UntimedAll(ControlsOf(fs[hdf_file].doc)) =
       UntimedAll(ExistingControls(fs) \o BuildControls(findings, now))

\* C9: when glob finds no scan file, main ends with exit status 1 at once:
\* no corpus is merged, no directory is created, no artifact is written and
\* the menu is not reached.
C9_EmptyInputAbortsBeforeOutput ==
  scan_files = <<>> =>
    /\ pc \in {"start", "done"}
    /\ pc = "done" => outcome = "exit1"
    /\ data = EmptyObj
    /\ findings = <<>>
    /\ dirs = {}
    /\ xccdf = {}
    /\ hdf_file = <<>>
    /\ DOMAIN fs \subseteq {TemplatePath}

\* C9's case: main has ended on an empty input set.
C9_Witness ==
  /\ scan_files = <<>>
  /\ pc = "done"
  /\ outcome = "exit1"

\* The source records of a corpus in the order extract_findings visits them,
\* each with its kind.
SourceRecordsOfBlock(result) ==
  LET vs == Get(result, "Vulnerabilities", <<>>)
      ms == Get(result, "Misconfigurations", <<>>)
      ss == Get(result, "Secrets", <<>>)
  IN  [i \in 1..Len(vs) |-> [kind |-> "vulnerability", rec |-> vs[i]]]
      \o [i \in 1..Len(ms) |-> [kind |-> "misconfiguration", rec |-> ms[i]]]
      \o [i \in 1..Len(ss) |-> [kind |-> "secret", rec |-> ss[i]]]

RECURSIVE SourceRecords(_)
SourceRecords(results) ==
  IF results = <<>> THEN <<>>
  ELSE SourceRecordsOfBlock(Head(results)) \o SourceRecords(Tail(results))

\* The identifier a source record is to get.
ExpectedId(src) ==
  CASE src.kind = "vulnerability"    -> src.rec["VulnerabilityID"]
    [] src.kind = "misconfiguration" -> src.rec["ID"]
    [] src.kind = "secret"           -> <<"S", "E", "C", "R", "E", "T", "-">> \o src.rec["RuleID"]

\* C10: extract_findings returns one finding per source record, in order; its
\* type is the record's kind, its id the record's identifier (prefixed with
\* SECRET- for a secret) and its title the record's Title when it has one and
\* the finding's id otherwise.
C10_IdAndTitleOfEveryFinding ==
  pc = "makedirs" =>
    LET src == SourceRecords(Get(data, "Results", <<>>))
    IN  /\ Len(findings) = Len(src)
        /\ \A i \in 1..Len(src) :
              /\ findings[i]["type"] = src[i].kind
              /\ findings[i]["id"] = ExpectedId(src[i])
              /\ findings[i]["title"] =
                   IF "Title" \in DOMAIN src[i].rec THEN src[i].rec["Title"]
                   ELSE findings[i]["id"]

\* C10's case: a misconfiguration without Title and the secret of rule
\* AWS-001, both normalised.
C10_Witness ==
  /\ pc = "makedirs"
  /\ \E i \in 1..Len(findings) :
        /\ findings[i]["type"] = "misconfiguration"
        /\ findings[i]["title"] = <<"D", "S", "0", "2", "6">>
  /\ \E i \in 1..Len(findings) :
        /\ findings[i]["type"] = "secret"
        /\ findings[i]["id"] =
             <<"S", "E", "C", "R", "E", "T", "-", "A", "W", "S", "-", "0", "0", "1">>
        /\ findings[i]["title"] = findings[i]["id"]

====
